---- MODULE Spec2Model ----
(***************************************************************************)
(* Model of the 2DA decoder of reference-app (src/utils/2daParser.ts).     *)
(*                                                                         *)
(* Text is a sequence of one-character strings.  A cell of a row is a      *)
(* tagged value: a JavaScript string or a JavaScript number; a number is   *)
(* kept as the decimal m / 10^e with e minimal, which is the value that    *)
(* parseFloat / parseInt produce for the short decimal literals used here. *)
(* A row is a function from its keys ("id" and column names) to cells.     *)
(*                                                                         *)
(* Around the decoder the module follows exportToCSV and load2DAFile of    *)
(* the same file, the hook useTableData, the tabs and row-detail dialogs   *)
(* of ReferenceApp and ReferenceDataGrid, and the string-reference         *)
(* resolver, which the sources do not hold and which follows the written   *)
(* specification.  Each part has its own specification: Spec, SpecCsv,     *)
(* SpecApp, SpecHook, SpecDialog, SpecResolver.                            *)
(***************************************************************************)
EXTENDS Integers, Sequences, FiniteSets, TLC

VARIABLES content, pc, dataLines, columns, i, line, parts, row, rows,
          rowsProcessed, rowsSkipped, result,
          csvContent, hooks, loads, requests, ui, resolver

\* The state outside the decoder: the text of the latest CSV export, the
\* state of each useTableData hook, the runs of its effect, the resource
\* names handed to fetch, and the state of ReferenceApp (currentTab) and of
\* the ReferenceDataGrid of the current tab, and the state of the
\* string-reference resolver.
appVars == <<csvContent, hooks, loads, requests, ui, resolver>>

decoderVars == <<content, pc, dataLines, columns, i, line, parts, row, rows,
                 rowsProcessed, rowsSkipped, result>>

vars == <<content, pc, dataLines, columns, i, line, parts, row, rows,
          rowsProcessed, rowsSkipped, result, appVars>>

-----------------------------------------------------------------------------
(* Characters *)

SP == " "
TAB == "\t"
NL == "\n"
CR == "\r"
QUOTE == "\""

Digits == {"0", "1", "2", "3", "4", "5", "6", "7", "8", "9"}

DigitVal(c) ==
  CASE c = "0" -> 0 [] c = "1" -> 1 [] c = "2" -> 2 [] c = "3" -> 3
    [] c = "4" -> 4 [] c = "5" -> 5 [] c = "6" -> 6 [] c = "7" -> 7
    [] c = "8" -> 8 [] c = "9" -> 9

\* White space as String.prototype.trim and the regular expression class \s see it.
IsWhitespace(c) == c \in {SP, TAB, NL, CR}

-----------------------------------------------------------------------------
(* JavaScript string primitives used by the decoder *)

RECURSIVE trimStart(_)
trimStart(s) ==
  IF s = <<>> THEN s
  ELSE IF IsWhitespace(Head(s)) THEN trimStart(Tail(s)) ELSE s

RECURSIVE trimEnd(_)
trimEnd(s) ==
  IF s = <<>> THEN s
  ELSE IF IsWhitespace(s[Len(s)]) THEN trimEnd(SubSeq(s, 1, Len(s) - 1)) ELSE s

\* String.prototype.trim
trim(s) == trimEnd(trimStart(s))

\* content.split('\n'): the pieces between line feeds, empty pieces included.
RECURSIVE splitLines(_)
splitLines(s) ==
  IF \E k \in 1..Len(s) : s[k] = NL
  THEN LET k == CHOOSE k \in 1..Len(s) : s[k] = NL /\ \A h \in 1..(k - 1) : s[h] /= NL
       IN  <<SubSeq(s, 1, k - 1)>> \o splitLines(SubSeq(s, k + 1, Len(s)))
  ELSE <<s>>

\* s.split(/\s+/): the pieces between maximal runs of white space.
RECURSIVE splitWhitespace(_)
splitWhitespace(s) ==
  IF \E k \in 1..Len(s) : IsWhitespace(s[k])
  THEN LET k == CHOOSE k \in 1..Len(s) :
                  IsWhitespace(s[k]) /\ \A h \in 1..(k - 1) : ~IsWhitespace(s[h])
       IN  <<SubSeq(s, 1, k - 1)>> \o splitWhitespace(trimStart(SubSeq(s, k, Len(s))))
  ELSE <<s>>

\* s.replace(/"/g, '')
RECURSIVE removeQuotes(_)
removeQuotes(s) ==
  IF s = <<>> THEN s
  ELSE IF Head(s) = QUOTE THEN removeQuotes(Tail(s))
       ELSE <<Head(s)>> \o removeQuotes(Tail(s))

-----------------------------------------------------------------------------
(* JavaScript numbers *)

\* A JavaScript integer result: NaN, or the integer v.
NaN == [nan |-> TRUE, v |-> 0]
IntegerValue(n) == [nan |-> FALSE, v |-> n]
isNaN(x) == x.nan

RECURSIVE Pow10(_)
Pow10(e) == IF e = 0 THEN 1 ELSE 10 * Pow10(e - 1)

\* The value of a run of decimal digits.
RECURSIVE digitsValue(_)
digitsValue(s) ==
  IF s = <<>> THEN 0
  ELSE 10 * digitsValue(SubSeq(s, 1, Len(s) - 1)) + DigitVal(s[Len(s)])

\* The longest prefix of s made of digits.
RECURSIVE digitPrefix(_)
digitPrefix(s) ==
  IF s = <<>> \/ Head(s) \notin Digits THEN <<>>
  ELSE <<Head(s)>> \o digitPrefix(Tail(s))

\* parseInt(s, 10): leading white space skipped, an optional sign, then the
\* longest run of digits; whatever follows is ignored; NaN without a digit.
parseInt(s) ==
  LET t    == trimStart(s)
      neg  == t /= <<>> /\ Head(t) = "-"
      sgn  == t /= <<>> /\ Head(t) \in {"-", "+"}
      body == IF sgn THEN Tail(t) ELSE t
      ds   == digitPrefix(body)
  IN  IF ds = <<>> THEN NaN
      ELSE IF neg THEN IntegerValue(0 - digitsValue(ds)) ELSE IntegerValue(digitsValue(ds))

\* Variant of numericPattern without the anchor at the end: a text that only
\* starts with a number also matches.
numericPrefix(s) ==
  digitPrefix(IF s /= <<>> /\ Head(s) = "-" THEN Tail(s) ELSE s) /= <<>>

\* /^-?\d+(\.\d+)?$/.test(s), scanned left to right.
numericPattern(s) ==
  LET body == IF s /= <<>> /\ Head(s) = "-" THEN Tail(s) ELSE s
      ip   == digitPrefix(body)
      rest == SubSeq(body, Len(ip) + 1, Len(body))
  IN  /\ ip /= <<>>
      /\ \/ rest = <<>>
         \/ /\ Head(rest) = "."
            /\ Len(rest) > 1
            /\ digitPrefix(Tail(rest)) = Tail(rest)

\* A number cell m / 10^e, normalised so that e is minimal.
RECURSIVE Num(_, _)
Num(m, e) ==
  IF e > 0 /\ m % 10 = 0 THEN Num(m \div 10, e - 1)
  ELSE [t |-> "num", s |-> <<>>, m |-> m, e |-> e]

\* A string cell.
Str(s) == [t |-> "str", s |-> s, m |-> 0, e |-> 0]

\* parseFloat(s) for s matching numericPattern.
parseFloat(s) ==
  LET neg  == Head(s) = "-"
      body == IF neg THEN Tail(s) ELSE s
      ip   == digitPrefix(body)
      fp   == SubSeq(body, Len(ip) + 2, Len(body))
      mag  == digitsValue(ip) * Pow10(Len(fp)) + digitsValue(fp)
  IN  Num(IF neg THEN 0 - mag ELSE mag, Len(fp))

-----------------------------------------------------------------------------
(* parse2DAFile *)

Marker == <<"2", "D", "A", " ", "V", "2", ".", "0">>
Placeholder == <<"*", "*", "*", "*">>
IdKey == <<"i", "d">>
IdColumn == <<"I", "D">>

EmptyTable == [columns |-> <<>>, rows |-> <<>>]

\* The value of `row` while no row object exists.
NoRow == [k \in {} |-> Str(<<>>)]

\* row[key] = cell
Put(r, key, cell) == [k \in (DOMAIN r) \cup {key} |-> IF k = key THEN cell ELSE r[k]]

\* Variant of collectDataLines that keeps the marker line.
RECURSIVE collectNonBlankLines(_)
collectNonBlankLines(ls) ==
  IF ls = <<>> THEN <<>>
  ELSE IF trim(Head(ls)) = <<>> THEN collectNonBlankLines(Tail(ls))
  ELSE <<trim(Head(ls))>> \o collectNonBlankLines(Tail(ls))

\* The loop over `lines`: trimmed lines that are neither blank nor the marker.
RECURSIVE collectDataLines(_)
collectDataLines(ls) ==
  IF ls = <<>> THEN <<>>
  ELSE LET trimmed == trim(Head(ls))
       IN  IF trimmed = <<>> THEN collectDataLines(Tail(ls))
           ELSE IF trimmed = Marker THEN collectDataLines(Tail(ls))
           ELSE <<trimmed>> \o collectDataLines(Tail(ls))

\* while (j < line.length && line[j] === ' ') j++   (j is 1-based here)
RECURSIVE skipSpaces(_, _)
skipSpaces(ln, j) ==
  IF j <= Len(ln) /\ ln[j] = SP THEN skipSpaces(ln, j + 1) ELSE j

\* Variant of scan that ends a part at every space, quoted or not.
RECURSIVE scanIgnoringQuotes(_, _, _, _, _)
scanIgnoringQuotes(ln, j, currentPart, inQuotes, ps) ==
  IF j > Len(ln)
  THEN IF Len(currentPart) > 0 THEN Append(ps, currentPart) ELSE ps
  ELSE IF ln[j] = SP
       THEN IF Len(currentPart) > 0
            THEN scanIgnoringQuotes(ln, skipSpaces(ln, j), <<>>, inQuotes, Append(ps, currentPart))
            ELSE scanIgnoringQuotes(ln, j + 1, currentPart, inQuotes, ps)
       ELSE scanIgnoringQuotes(ln, j + 1, Append(currentPart, ln[j]), inQuotes, ps)

\* The character scan of a data line, from position j with the scan state
\* (currentPart, inQuotes, parts so far), to the final list of parts.
RECURSIVE scan(_, _, _, _, _)
scan(ln, j, currentPart, inQuotes, ps) ==
  IF j > Len(ln)
  THEN IF Len(currentPart) > 0 THEN Append(ps, currentPart) ELSE ps
  ELSE LET char == ln[j]
       IN  IF char = QUOTE /\ ~inQuotes
             THEN scan(ln, j + 1, Append(currentPart, char), TRUE, ps)
           ELSE IF char = QUOTE /\ inQuotes
             THEN scan(ln, j + 1, Append(currentPart, char), FALSE, ps)
           ELSE IF char = SP /\ ~inQuotes
             THEN IF Len(currentPart) > 0
                  THEN scan(ln, skipSpaces(ln, j), <<>>, inQuotes, Append(ps, currentPart))
                  ELSE scan(ln, j + 1, currentPart, inQuotes, ps)
           ELSE scan(ln, j + 1, Append(currentPart, char), inQuotes, ps)

\* Variant of tokenize that splits a data line as the header line is split.
tokenizeLikeHeader(ln) == splitWhitespace(ln)

\* The parts of one data line.
tokenize(ln) == scan(ln, skipSpaces(ln, 1), <<>>, FALSE, <<>>)

\* value.startsWith('"') && value.endsWith('"') && value.length > 1 ? value.slice(1, -1) : value
stripQuotes(value) ==
  IF Len(value) > 1 /\ Head(value) = QUOTE /\ value[Len(value)] = QUOTE
  THEN SubSeq(value, 2, Len(value) - 1)
  ELSE value

\* Variant of normalizePlaceholder that leaves the placeholder in place.
keepPlaceholder(value) == value

\* value === '****' ? '' : value
normalizePlaceholder(value) == IF value = Placeholder THEN <<>> ELSE value

\* Variant of decodeValue without the conversion to a number.
decodeValueAsText(part) == Str(normalizePlaceholder(stripQuotes(part)))

\* The cell stored for a part: quotes cleaned, placeholder emptied, numbers converted.
decodeValue(part) ==
  LET value == normalizePlaceholder(stripQuotes(part))
  IN  IF value /= <<>> /\ numericPattern(value) THEN parseFloat(value) ELSE Str(value)

\* Variant of decodeCells that stores parts[j] under columns[j], one column
\* too far.
RECURSIVE decodeCellsShifted(_, _, _, _)
decodeCellsShifted(ps, cols, j, r) ==
  IF j < Len(ps) /\ j < Len(cols)
  THEN decodeCellsShifted(ps, cols, j + 1, Put(r, cols[j + 1], decodeValue(ps[j + 1])))
  ELSE r

\* for (let j = 1; j < parts.length && j - 1 < columns.length; j++) { ... }
\* parts[j] is ps[j + 1] and columns[j - 1] is cols[j] with 1-based sequences.
RECURSIVE decodeCells(_, _, _, _)
decodeCells(ps, cols, j, r) ==
  IF j < Len(ps) /\ j - 1 < Len(cols)
  THEN LET columnName == cols[j]
       IN  IF columnName = <<>> THEN decodeCells(ps, cols, j + 1, r)
           ELSE decodeCells(ps, cols, j + 1, Put(r, columnName, decodeValue(ps[j + 1])))
  ELSE r

\* parseInt(parts[0] || '0', 10)
parseId(ps) == parseInt(IF ps = <<>> \/ ps[1] = <<>> THEN <<"0">> ELSE ps[1])

\* Variant of hasDeletedLabel that takes off the surrounding quotes only.
hasWrappedDeletedLabel(ps) == Len(ps) > 1 /\ stripQuotes(ps[2]) = Placeholder

\* parts.length > 1 && parts[1].replace(/"/g, '') === '****'
hasDeletedLabel(ps) == Len(ps) > 1 /\ removeQuotes(ps[2]) = Placeholder

\* The three `continue` statements of the row loop.
rowIsSkipped(ps) ==
  \/ Len(ps) = 0
  \/ isNaN(parseId(ps))
  \/ hasDeletedLabel(ps)

\* const row = { id }; followed by the column loop.
buildRow(ps, cols) == decodeCells(ps, cols, 1, [k \in {IdKey} |-> Num(parseId(ps).v, 0)])

\* Variant of finalTable that returns the header columns alone.
finalTableWithoutId(cols, rs) == [columns |-> cols, rows |-> rs]

\* { columns: ['ID', ...columns], rows }
finalTable(cols, rs) == [columns |-> <<IdColumn>> \o cols, rows |-> rs]

-----------------------------------------------------------------------------
(* exportToCSV *)

\* The decimal digit of n < 10.
digitChar(n) == CHOOSE d \in Digits : DigitVal(d) = n

\* The decimal digits of a natural number, without leading zeros.
RECURSIVE naturalToString(_)
naturalToString(n) ==
  IF n < 10 THEN <<digitChar(n)>>
  ELSE naturalToString(n \div 10) \o <<digitChar(n % 10)>>

\* The e fraction digits of f / 10^e.
RECURSIVE fractionToString(_, _)
fractionToString(f, e) ==
  IF e = 0 THEN <<>>
  ELSE fractionToString(f \div 10, e - 1) \o <<digitChar(f % 10)>>

\* String(value) of a number cell: the default decimal form.
numberToString(cell) ==
  LET mag == IF cell.m < 0 THEN 0 - cell.m ELSE cell.m
  IN  (IF cell.m < 0 THEN <<"-">> ELSE <<>>)
        \o naturalToString(mag \div Pow10(cell.e))
        \o (IF cell.e = 0 THEN <<>>
            ELSE <<".">> \o fractionToString(mag % Pow10(cell.e), cell.e))

\* Array.prototype.join(sep) over texts.
RECURSIVE arrayJoin(_, _)
arrayJoin(xs, sep) ==
  IF xs = <<>> THEN <<>>
  ELSE IF Len(xs) = 1 THEN xs[1]
  ELSE arrayJoin(SubSeq(xs, 1, Len(xs) - 1), sep) \o sep \o xs[Len(xs)]

\* value.includes(ch)
includes(value, ch) == \E k \in 1..Len(value) : value[k] = ch

\* value.replace(/"/g, '""')
RECURSIVE doubleQuotes(_)
doubleQuotes(value) ==
  IF value = <<>> THEN <<>>
  ELSE (IF Head(value) = QUOTE THEN <<QUOTE, QUOTE>> ELSE <<Head(value)>>)
         \o doubleQuotes(Tail(value))

\* A cell that JavaScript takes for false: the number 0 or the empty string.
isFalsy(cell) == IF cell.t = "num" THEN cell.m = 0 ELSE cell.s = <<>>

\* row[col === 'ID' ? 'id' : col] || ''
valueOrEmpty(r, col) ==
  LET key == IF col = IdColumn THEN IdKey ELSE col
  IN  IF key \notin DOMAIN r THEN Str(<<>>)
      ELSE IF isFalsy(r[key]) THEN Str(<<>>)
      ELSE r[key]

\* Variant of csvField that wraps a value without doubling its quotes.
csvFieldUndoubled(value) ==
  IF value.t = "str" /\ (includes(value.s, ",") \/ includes(value.s, QUOTE))
  THEN <<QUOTE>> \o value.s \o <<QUOTE>>
  ELSE IF value.t = "str" THEN value.s
  ELSE numberToString(value)

\* The text that a value gives in its line: a string with a comma or a quote
\* is wrapped, any other value is joined in its string form.
csvField(value) ==
  IF value.t = "str" /\ (includes(value.s, ",") \/ includes(value.s, QUOTE))
  THEN <<QUOTE>> \o doubleQuotes(value.s) \o <<QUOTE>>
  ELSE IF value.t = "str" THEN value.s
  ELSE numberToString(value)

\* Variant of csvLine that runs over the columns after the first.
csvLineWithoutId(r, cols) ==
  arrayJoin([j \in 1..(Len(cols) - 1) |-> csvField(valueOrEmpty(r, cols[j + 1]))], <<",">>)

\* data.columns.map(col => ...).join(',')
csvLine(r, cols) ==
  arrayJoin([j \in 1..Len(cols) |-> csvField(valueOrEmpty(r, cols[j]))], <<",">>)

\* The csvContent of exportToCSV(data, filename).
exportToCSV(data) ==
  arrayJoin(<<arrayJoin(data.columns, <<",">>)>>
              \o [k \in 1..Len(data.rows) |-> csvLine(data.rows[k], data.columns)],
            <<NL>>)

-----------------------------------------------------------------------------
(* load2DAFile and useTableData *)

\* The rows of the data lines dl[k..], as the row loop builds them.
RECURSIVE parseRows(_, _, _)
parseRows(dl, cols, k) ==
  IF k > Len(dl) THEN <<>>
  ELSE LET ps == tokenize(dl[k])
       IN  (IF rowIsSkipped(ps) THEN <<>> ELSE <<buildRow(ps, cols)>>)
             \o parseRows(dl, cols, k + 1)

\* parse2DAFile(content) as a function of the text.
parse2DAFile(c) ==
  LET dl == collectDataLines(splitLines(c))
  IN  IF Len(dl) = 0 THEN EmptyTable
      ELSE LET cols == splitWhitespace(trim(dl[1]))
           IN  finalTable(cols, parseRows(dl, cols, 2))

\* What fetch gives: a rejection, a response that is not ok, or a response
\* with a text.
FetchRejects == [kind |-> "rejects", text |-> <<>>]
NotOk == [kind |-> "notOk", text |-> <<>>]
Ok(text) == [kind |-> "ok", text |-> text]

\* The try block of load2DAFile: it throws when fetch rejects or the response
\* is not ok, and returns the parsed text otherwise.
tryBlock(response) ==
  IF response.kind = "rejects"
  THEN [thrown |-> TRUE, message |-> "Failed to fetch", value |-> EmptyTable]
  ELSE IF response.kind = "notOk"
  THEN [thrown |-> TRUE, message |-> "Failed to fetch file: status", value |-> EmptyTable]
  ELSE [thrown |-> FALSE, message |-> "", value |-> parse2DAFile(response.text)]

\* Variant of load2DAFile whose promise rejects with the error of the try
\* block.
load2DAFileRethrowing(response) ==
  LET r == tryBlock(response)
  IN  [rejected |-> r.thrown, message |-> r.message, value |-> r.value]

\* The promise of load2DAFile once settled: the catch block turns every
\* error into the empty table.
load2DAFile(response) ==
  LET r == tryBlock(response)
  IN  IF r.thrown THEN [rejected |-> FALSE, message |-> "", value |-> EmptyTable]
      ELSE [rejected |-> FALSE, message |-> "", value |-> r.value]

\* The promise of a load that has not settled.
Pending == [rejected |-> FALSE, message |-> "", value |-> EmptyTable]

\* data: TableData | null and error: string | null
NoData == [null |-> TRUE, table |-> EmptyTable]
Data(t) == [null |-> FALSE, table |-> t]
NoError == [null |-> TRUE, message |-> ""]
Error(m) == [null |-> FALSE, message |-> m]

\* The state of useTableData(filename) at its first render.
useState(filename) ==
  [filename |-> filename, mounted |-> FALSE,
   data |-> NoData, loading |-> TRUE, error |-> NoError]

\* loadData up to its await: setLoading(true); setError(null).
beforeLoad(hook) == [hook EXCEPT !.loading = TRUE, !.error = NoError]

\* Variant of afterLoad that writes whether or not the effect was cleaned up.
afterLoadUnguarded(hook, isMounted, promise) ==
  IF promise.rejected
  THEN [hook EXCEPT !.error = Error(promise.message), !.loading = FALSE]
  ELSE [hook EXCEPT !.data = Data(promise.value), !.loading = FALSE]

\* loadData after its await: setData or setError, then setLoading(false),
\* each under `if (isMounted)`.
afterLoad(hook, isMounted, promise) ==
  IF ~isMounted THEN hook
  ELSE IF promise.rejected
  THEN [hook EXCEPT !.error = Error(promise.message), !.loading = FALSE]
  ELSE [hook EXCEPT !.data = Data(promise.value), !.loading = FALSE]

\* One run of the effect of hook h: its isMounted flag and its load.
Effect(h, filename) ==
  [hook |-> h, filename |-> filename, isMounted |-> TRUE, settled |-> FALSE,
   response |-> NotOk, promise |-> Pending]

\* The cleanup of every effect of hook h: isMounted = false.
cleanup(ls, h) ==
  [k \in 1..Len(ls) |-> IF ls[k].hook = h THEN [ls[k] EXCEPT !.isMounted = FALSE] ELSE ls[k]]

-----------------------------------------------------------------------------
(* Input texts *)

MaxValues == 2
MaxLines == 4

\* The lines of a text joined by line feeds.
RECURSIVE joinLines(_)
joinLines(ls) ==
  IF ls = <<>> THEN <<>>
  ELSE IF Len(ls) = 1 THEN ls[1]
  ELSE ls[1] \o <<NL>> \o joinLines(Tail(ls))

\* The fields of a line joined by a separator.
RECURSIVE joinFields(_, _)
joinFields(fs, sep) ==
  IF fs = <<>> THEN <<>>
  ELSE IF Len(fs) = 1 THEN fs[1]
  ELSE fs[1] \o sep \o joinFields(Tail(fs), sep)

SeqsUpTo(S, n) == UNION {[1..k -> S] : k \in 0..n}

\* First fields of data lines.
IdFields ==
  { <<"1">>, <<"7", "a">>, <<"1", ".", "5">>, <<"-", "3">>, <<"x">> }

\* Later fields of data lines.
ValueFields ==
  { <<"a", "b">>,
    Placeholder,
    <<QUOTE>> \o Placeholder \o <<QUOTE>>,
    <<"*", "*", QUOTE, "*", "*">>,
    <<QUOTE, "a", " ", "b", QUOTE>>,
    <<QUOTE, "5", QUOTE>>,
    <<"1", "2">>,
    <<"1", "2", ".", "5">>,
    <<"-", "3", ".", "5", "0">>,
    <<"1", ".">>,
    <<"a", TAB, "b">>,
    <<QUOTE>> }

Separators == { <<SP>>, <<TAB>> }

\* Header lines: plain columns; a column named id and a string-reference column.
HeaderLines ==
  { <<"A", " ", "B">>,
    <<"i", "d", " ", "N", "a", "m", "e">> }

\* One header line and one data line that runs over the fields.
FieldTexts ==
  { joinLines(<<h, joinFields(<<f>> \o vs, sep)>>) :
      h \in HeaderLines, f \in IdFields, vs \in SeqsUpTo(ValueFields, MaxValues),
      sep \in Separators }

\* Lines of the texts that run over the line structure: a blank line, the
\* marker, a header with a repeated name after a tab, and data lines.
TextLines ==
  { <<>>,
    Marker \o <<CR>>,
    <<SP, "A", TAB, "A", CR>>,
    <<"1", " ", " ", "x", " ", "y", " ", "w">>,
    <<"2", " ", "*", "*", "*", "*", " ", "z">>,
    <<"3", " ", QUOTE, "p", " ", " ", "q", QUOTE, " ", "*", "*", "*", "*">> }

LineTexts == { joinLines(ls) : ls \in SeqsUpTo(TextLines, MaxLines) }

Inputs == FieldTexts \cup LineTexts

-----------------------------------------------------------------------------
(* The decoder as a state machine: one run of parse2DAFile(content) *)

\* The locals of parse2DAFile at its entry.
DecoderStart ==
  /\ pc = "start"
  /\ dataLines = <<>>
  /\ columns = <<>>
  /\ i = 0
  /\ line = <<>>
  /\ parts = <<>>
  /\ row = NoRow
  /\ rows = <<>>
  /\ rowsProcessed = 0
  /\ rowsSkipped = 0
  /\ result = EmptyTable

\* A StringTable without entries.
EmptyStringTable == [id \in {} |-> <<>>]

\* The resolver before its first use: nothing loaded, nothing asked
\* (`last` is the latest call, with the lifecycle that it found).
ResolverState ==
  [lifecycle |-> "uninitialized",
   standard |-> EmptyStringTable, custom |-> EmptyStringTable,
   fetches |-> [standard |-> 0, custom |-> 0],
   waiting |-> {},
   last |-> [op |-> "none", at |-> "uninitialized", caller |-> 0,
             ref |-> <<>>, text |-> <<>>]]

\* selectedRow and crossRefRow: no row, or the row with index `index` (from
\* 1) of the table of the given type.
NoRowData == [null |-> TRUE, tableType |-> "", index |-> 0]
RowData(tableType, index) == [null |-> FALSE, tableType |-> tableType, index |-> index]

\* The state of ReferenceApp with the tab `tab` current and the first state
\* of its ReferenceDataGrid.
useStateOfGrid(tab) ==
  [currentTab |-> tab,
   selectedRow |-> NoRowData, detailDialogOpen |-> FALSE,
   crossRefRow |-> NoRowData, crossRefDialogOpen |-> FALSE,
   crossRefColumns |-> <<>>, crossRefTitle |-> <<>>, crossRefTableType |-> ""]

\* No parse2DAFile call is followed.
DecoderIdle ==
  /\ content = <<>>
  /\ pc = "idle"
  /\ dataLines = <<>>
  /\ columns = <<>>
  /\ i = 0
  /\ line = <<>>
  /\ parts = <<>>
  /\ row = NoRow
  /\ rows = <<>>
  /\ rowsProcessed = 0
  /\ rowsSkipped = 0
  /\ result = EmptyTable

\* Nothing has been exported and no component is rendered.
AppIdle ==
  /\ csvContent = <<>>
  /\ hooks = <<>>
  /\ loads = <<>>
  /\ requests = <<>>
  /\ ui = useStateOfGrid(0)
  /\ resolver = ResolverState

Init ==
  /\ content \in Inputs
  /\ DecoderStart
  /\ AppIdle

\* Lines 29-46: split the text and collect the data lines.
CollectDataLines ==
  /\ pc = "start"
  /\ dataLines' = collectDataLines(splitLines(content))
  /\ pc' = "collected"
  /\ UNCHANGED <<content, columns, i, line, parts, row, rows, rowsProcessed,
                 rowsSkipped, result>>
  /\ UNCHANGED appVars

\* Lines 50-53: no data line at all.
ReturnEmpty ==
  /\ pc = "collected"
  /\ Len(dataLines) = 0
  /\ result' = EmptyTable
  /\ pc' = "done"
  /\ UNCHANGED <<content, dataLines, columns, i, line, parts, row, rows,
                 rowsProcessed, rowsSkipped>>
  /\ UNCHANGED appVars

\* Lines 56-71: the header line gives the column names; the row loop starts at 1.
ParseHeader ==
  /\ pc = "collected"
  /\ Len(dataLines) /= 0
  /\ columns' = splitWhitespace(trim(dataLines[1]))
  /\ i' = 1
  /\ pc' = "rows"
  /\ UNCHANGED <<content, dataLines, line, parts, row, rows, rowsProcessed,
                 rowsSkipped, result>>
  /\ UNCHANGED appVars

\* Lines 73-147: one iteration of the row loop that ends in `continue`.
\* (The `continue` of line 75 is never taken: dataLines holds trimmed lines
\* that are not blank.)
SkipRow ==
  /\ pc = "rows"
  /\ i < Len(dataLines)
  /\ LET ln == dataLines[i + 1]
         ps == tokenize(ln)
     IN  /\ rowIsSkipped(ps)
         /\ line' = ln
         /\ parts' = ps
         /\ row' = NoRow
         /\ rowsSkipped' = rowsSkipped + 1
  /\ rowsProcessed' = rowsProcessed + 1
  /\ i' = i + 1
  /\ UNCHANGED <<content, pc, dataLines, columns, rows, result>>
  /\ UNCHANGED appVars

\* Lines 73-183: one iteration of the row loop that pushes a row.
KeepRow ==
  /\ pc = "rows"
  /\ i < Len(dataLines)
  /\ LET ln == dataLines[i + 1]
         ps == tokenize(ln)
     IN  /\ ~rowIsSkipped(ps)
         /\ line' = ln
         /\ parts' = ps
         /\ row' = buildRow(ps, columns)
         /\ rows' = Append(rows, buildRow(ps, columns))
  /\ rowsProcessed' = rowsProcessed + 1
  /\ i' = i + 1
  /\ UNCHANGED <<content, pc, dataLines, columns, rowsSkipped, result>>
  /\ UNCHANGED appVars

\* Lines 186-187: the loop is over.
ReturnTable ==
  /\ pc = "rows"
  /\ ~(i < Len(dataLines))
  /\ result' = finalTable(columns, rows)
  /\ pc' = "done"
  /\ UNCHANGED <<content, dataLines, columns, i, line, parts, row, rows,
                 rowsProcessed, rowsSkipped>>
  /\ UNCHANGED appVars

Next ==
  \/ CollectDataLines
  \/ ReturnEmpty
  \/ ParseHeader
  \/ SkipRow
  \/ KeepRow
  \/ ReturnTable

Spec == Init /\ [][Next]_vars

-----------------------------------------------------------------------------
(* Vocabulary of the properties *)

Min(a, b) == IF a < b THEN a ELSE b

\* The maximal runs of positions of s outside the separator positions, in order.
FieldsBy(s, SepAt) ==
  LET starts == {k \in 1..Len(s) : k \notin SepAt /\ (k = 1 \/ (k - 1) \in SepAt)}
      endOf(a) == CHOOSE b \in a..Len(s) :
                    /\ \A h \in a..b : h \notin SepAt
                    /\ (b = Len(s) \/ (b + 1) \in SepAt)
      nth(n) == CHOOSE a \in starts : Cardinality({b \in starts : b < a}) = n - 1
  IN  [n \in 1..Cardinality(starts) |-> SubSeq(s, nth(n), endOf(nth(n)))]

\* Positions of s that lie outside every quoted span: an even number of
\* double quotes precedes them.
Unquoted(s) ==
  {k \in 1..Len(s) : Cardinality({h \in 1..(k - 1) : s[h] = QUOTE}) % 2 = 0}

WhitespaceAt(s) == {k \in 1..Len(s) : IsWhitespace(s[k])}
UnquotedSpaces(s) == {k \in Unquoted(s) : s[k] = SP}
UnquotedWhitespace(s) == {k \in Unquoted(s) : IsWhitespace(s[k])}

\* The names of a header line.
Words(s) == FieldsBy(s, WhitespaceAt(s))

\* The lines of the input, and those that survive.
InputLines ==
  LET t == content \o <<NL>>
      nl == {k \in 1..Len(t) : t[k] = NL}
      nth(n) == CHOOSE a \in nl : Cardinality({b \in nl : b < a}) = n - 1
      from(n) == IF n = 1 THEN 1 ELSE nth(n - 1) + 1
  IN  [n \in 1..Cardinality(nl) |-> SubSeq(t, from(n), nth(n) - 1)]
Trimmed(l) ==
  LET ink == (1..Len(l)) \ WhitespaceAt(l)
  IN  IF ink = {} THEN <<>>
      ELSE SubSeq(l, CHOOSE a \in ink : \A b \in ink : a <= b,
                     CHOOSE a \in ink : \A b \in ink : b <= a)
Survives(l) == Trimmed(l) \notin {<<>>, Marker}
Surviving == SelectSeq(InputLines, Survives)

IsRow(r) == DOMAIN r /= {}
AllDigits(s) == s /= <<>> /\ \A k \in 1..Len(s) : s[k] \in Digits

\* Some data line has been processed: line, parts and row are those of the
\* latest one.
Processed == pc \in {"rows", "done"} /\ i >= 2

\* The loop indices j of the latest line whose part has a header column, and
\* those whose column no later part overwrites.
Mapped == 1..Min(Len(parts) - 1, Len(columns))
Final(j) == \A h \in Mapped : h > j => columns[h] /= columns[j]

\* The rows that a sequence of surviving data lines gives under a header,
\* line by line: nothing for a skipped line, its row for any other.
RECURSIVE RowsOf(_, _)
RowsOf(ls, cols) ==
  IF ls = <<>> THEN <<>>
  ELSE LET ps == FieldsBy(Trimmed(ls[1]), UnquotedSpaces(Trimmed(ls[1])))
       IN  (IF rowIsSkipped(ps) THEN <<>> ELSE <<buildRow(ps, cols)>>)
             \o RowsOf(Tail(ls), cols)

-----------------------------------------------------------------------------
(* C1 *)

\* C1: whenever the input has a surviving line, the returned columns are "ID"
\* followed by the white-space-separated names of the first surviving line,
\* in order, and the returned rows are the rows of the later surviving lines
\* in source order.
C1_ColumnsAndRows ==
  (pc = "done" /\ Surviving /= <<>>) =>
     /\ result.columns = <<IdColumn>> \o Words(Surviving[1])
     /\ result.columns[1] = <<"I", "D">>
     /\ result.rows = RowsOf(Tail(Surviving), Words(Surviving[1]))

\* Two rows returned in source order from a text whose marker line comes
\* after the header line.
C1_Witness ==
  /\ pc = "done"
  /\ Len(result.rows) = 2
  /\ result.rows[1] /= result.rows[2]
  /\ \E k \in 2..Len(InputLines) :
       /\ Trimmed(InputLines[k]) = Marker
       /\ \E h \in 1..(k - 1) : Survives(InputLines[h])

-----------------------------------------------------------------------------
(* C2 *)

\* C2: every row has an id field whose value is the integer parsed from the
\* first token of its source line, whatever the header names its columns and
\* whatever the later tokens of the line are.
C2_IdIsFirstToken ==
  (Processed /\ IsRow(row)) =>
     /\ IdKey \in DOMAIN row
     /\ row[IdKey] = [t |-> "num", s |-> <<>>, m |-> parseInt(parts[1]).v, e |-> 0]

-----------------------------------------------------------------------------
(* C3 *)

\* A whole token that is an integer literal: an optional sign and digits.
IntegerLiteral(tok) ==
  AllDigits(IF tok /= <<>> /\ tok[1] \in {"-", "+"} THEN Tail(tok) ELSE tok)

\* C3: a data line with no token, or whose first token is not wholly an
\* integer literal, gives no row.
C3_MalformedIdDropped ==
  (Processed /\ (Len(parts) = 0 \/ ~IntegerLiteral(parts[1]))) => ~IsRow(row)

-----------------------------------------------------------------------------
(* C4 *)

\* A token with its double quotes taken out.
WithoutQuotes(tok) == SelectSeq(tok, LAMBDA c : c /= QUOTE)

\* C4: a data line whose first token parses as an integer gives no row if
\* and only if it has a second token that is **** once its double quotes
\* are taken out; every other such line appends exactly one row, and every
\* line is either skipped or kept.
C4_DeletedRows ==
  (Processed /\ parts /= <<>> /\ ~isNaN(parseInt(parts[1]))) =>
     /\ ~IsRow(row) <=> (Len(parts) >= 2 /\ WithoutQuotes(parts[2]) = Placeholder)
     /\ IsRow(row) => (rows /= <<>> /\ rows[Len(rows)] = row)
     /\ Len(rows) + rowsSkipped = i - 1

\* A line with an integer id whose quoted label holds **** was skipped.
C4_Witness ==
  /\ Processed
  /\ Len(parts) >= 2
  /\ ~isNaN(parseInt(parts[1]))
  /\ parts[2] = <<"*", "*", QUOTE, "*", "*">>
  /\ ~IsRow(row)
  /\ rowsSkipped = 1

-----------------------------------------------------------------------------
(* C5 *)

\* C5: the parts of a data line are exactly the maximal runs of characters
\* between unquoted spaces, in order, quotes included, and none is empty.
C5_Tokens ==
  Processed =>
     /\ parts = FieldsBy(line, UnquotedSpaces(line))
     /\ \A k \in 1..Len(parts) : parts[k] /= <<>>

\* A line with a quoted span holding a run of spaces gave three parts.
C5_Witness ==
  /\ Processed
  /\ Len(parts) = 3
  /\ parts[2] = <<QUOTE, "p", " ", " ", "q", QUOTE>>

-----------------------------------------------------------------------------
(* C6 *)

\* C6 as stated: the parts of a data line are its fields between runs of
\* white space outside quotes, a tab separating fields as a space does.
C6_WhitespaceTokens ==
  Processed => parts = FieldsBy(line, UnquotedWhitespace(line))

CountIn(S, s) == Cardinality({k \in 1..Len(s) : s[k] \in S})

RECURSIVE CountInAll(_, _)
CountInAll(S, ss) ==
  IF ss = <<>> THEN 0 ELSE CountIn(S, ss[1]) + CountInAll(S, Tail(ss))

\* C6 amended: only spaces outside quotes separate the parts of a data line.
\* Every tab of the line is a character of some part, the number of parts is
\* one more than the number of runs of unquoted spaces, the row id is read
\* from the first part, and part j of a kept row is stored under header
\* column j-1.
C6_SpaceTokens ==
  Processed =>
     /\ CountInAll({TAB}, parts) = CountIn({TAB}, line)
     /\ Len(parts) = 1 + Cardinality({k \in UnquotedSpaces(line) :
                                         (k + 1) \notin UnquotedSpaces(line)})
     /\ IsRow(row) =>
          /\ (\A h \in Mapped : columns[h] /= IdKey)
               => row[IdKey].m = parseInt(FieldsBy(line, UnquotedSpaces(line))[1]).v
          /\ \A j \in Mapped : Final(j) => row[columns[j]] = decodeValue(parts[j + 1])
          /\ DOMAIN row = {IdKey} \cup {columns[j] : j \in Mapped}

\* A kept line with spaces between its fields and a tab inside one of them.
C6_Witness ==
  /\ Processed
  /\ IsRow(row)
  /\ Len(parts) = 3
  /\ parts[2] = <<"a", TAB, "b">>
  /\ row[columns[1]] = Str(<<"a", TAB, "b">>)

-----------------------------------------------------------------------------
(* C7 *)

\* C7: in a kept row, a part after the second that is ****, bare or within
\* one pair of double quotes, is stored as the empty string under its column.
C7_PlaceholderIsEmpty ==
  (Processed /\ IsRow(row)) =>
     \A j \in Mapped :
        (j >= 2 /\ Final(j)
           /\ parts[j + 1] \in {Placeholder, <<QUOTE>> \o Placeholder \o <<QUOTE>>})
        => row[columns[j]] = [t |-> "str", s |-> <<>>, m |-> 0, e |-> 0]

\* The row of `1 ab ****` under the header `A B`.
C7_Witness ==
  /\ Processed
  /\ IsRow(row)
  /\ columns = <<<<"A">>, <<"B">>>>
  /\ parts = <<<<"1">>, <<"a", "b">>, Placeholder>>
  /\ row[<<"B">>].t = "str"
  /\ row[<<"B">>].s = <<>>

-----------------------------------------------------------------------------
(* C8 *)

\* One matching pair of surrounding double quotes taken off.
Unwrapped(tok) ==
  IF Len(tok) >= 2 /\ tok[1] = QUOTE /\ tok[Len(tok)] = QUOTE
  THEN [k \in 1..(Len(tok) - 2) |-> tok[k + 1]]
  ELSE tok

\* optional minus, digits, optionally a dot and digits
StrictNumber(v) ==
  LET b == IF v /= <<>> /\ v[1] = "-" THEN Tail(v) ELSE v
  IN  \/ AllDigits(b)
      \/ \E d \in 2..(Len(b) - 1) :
            /\ b[d] = "."
            /\ AllDigits(SubSeq(b, 1, d - 1))
            /\ AllDigits(SubSeq(b, d + 1, Len(b)))

\* The digits of a strict number read as one integer, and the count of its
\* fraction digits.
Unscaled(v) ==
  LET ds == SelectSeq(v, LAMBDA c : c \in Digits)
      n == digitsValue(ds)
  IN  IF v[1] = "-" THEN 0 - n ELSE n
FractionDigits(v) ==
  IF \E d \in 1..Len(v) : v[d] = "."
  THEN Len(v) - (CHOOSE d \in 1..Len(v) : v[d] = ".")
  ELSE 0

\* C8: the cell of a value part is a number if and only if the unwrapped
\* text is a strict number, and then it is the value of that numeral; any
\* other text but the placeholder is stored unchanged as a string.
C8_NumericCoercion ==
  (Processed /\ IsRow(row)) =>
     \A j \in Mapped :
        Final(j) =>
          LET v == Unwrapped(parts[j + 1])
              cell == row[columns[j]]
          IN  /\ cell.t = "num" <=> StrictNumber(v)
              /\ StrictNumber(v) =>
                   cell.m * Pow10(FractionDigits(v) - cell.e) = Unscaled(v)
              /\ (~StrictNumber(v) /\ v /= Placeholder) => (cell.t = "str" /\ cell.s = v)
              /\ v = <<"1", "2">> => (cell.m = 12 /\ cell.e = 0)
              /\ v = <<"1", "2", ".", "5">> => (cell.m = 125 /\ cell.e = 1)
              /\ v = <<"a", "b">> => cell.s = <<"a", "b">>

\* A row holding the number 12.5, the number 5 from a quoted numeral and the
\* text of `1.` side by side.
C8_Witness ==
  /\ Processed
  /\ IsRow(row)
  /\ \E j \in Mapped : parts[j + 1] = <<"1", "2", ".", "5">> /\ row[columns[j]].t = "num"
  /\ \E j \in Mapped : parts[j + 1] = <<"1", ".">> /\ row[columns[j]].t = "str"

-----------------------------------------------------------------------------
(* C9 *)

StringRefColumns ==
  { <<"N", "a", "m", "e">>,
    <<"S", "p", "e", "l", "l", "D", "e", "s", "c">>,
    <<"F", "E", "A", "T">>,
    <<"D", "E", "S", "C", "R", "I", "P", "T", "I", "O", "N">>,
    <<"S", "T", "R", "I", "N", "G", "_", "R", "E", "F">>,
    <<"N", "A", "M", "E">>,
    <<"A", "l", "t", "M", "e", "s", "s", "a", "g", "e">>,
    <<"L", "a", "b", "e", "l">>,
    <<"S", "t", "r", "R", "e", "f">> }

-----------------------------------------------------------------------------
(* C10 *)

\* C10 as stated: without a surviving line, and with exactly one, the result
\* is the empty table.
C10_EmptyTable ==
  (pc = "done" /\ Len(Surviving) <= 1) => result = [columns |-> <<>>, rows |-> <<>>]

\* C10 amended: without a surviving line the result is the empty table; with
\* exactly one surviving line the result has no rows and its columns are
\* "ID" followed by the names of that line.
C10_EmptyOrHeaderOnly ==
  /\ (pc = "done" /\ Len(Surviving) = 0) => result = [columns |-> <<>>, rows |-> <<>>]
  /\ (pc = "done" /\ Len(Surviving) = 1) =>
        /\ result.rows = <<>>
        /\ Len(result.columns) >= 2
        /\ result.columns = <<IdColumn>> \o Words(Surviving[1])

\* A text of a marker line and a header line only has been decoded.
C10_Witness ==
  /\ pc = "done"
  /\ Len(Surviving) = 1
  /\ Len(InputLines) = 2
  /\ Trimmed(InputLines[1]) = Marker
  /\ result.columns = <<IdColumn, <<"A">>, <<"A">>>>

-----------------------------------------------------------------------------
(* C18 *)

\* The kind and the text of the cell that a part gives: its text without one
\* pair of surrounding quotes, empty for the placeholder, a number (whose
\* value C8 states) for a strict number.
CellOf(tok) ==
  LET v == Unwrapped(tok)
  IN  IF v = Placeholder THEN [t |-> "str", s |-> <<>>, m |-> 0, e |-> 0]
      ELSE IF StrictNumber(v)
           THEN [t |-> "num", s |-> <<>>, m |-> 0, e |-> 0]
           ELSE [t |-> "str", s |-> v, m |-> 0, e |-> 0]

\* C18: in a kept row the part at index j >= 1 is stored under columns[j-1]
\* (the last such part when header names repeat), the parts beyond the
\* header's columns leave nothing in the row, a column without a part gives
\* no key, and the row has no key but id and the names of the columns that
\* have a part.
C18_PositionalMapping ==
  (Processed /\ IsRow(row)) =>
     /\ \A j \in 1..(Len(parts) - 1) :
          \/ j > Len(columns)
          \/ /\ columns[j] \in DOMAIN row
             /\ Final(j) => /\ row[columns[j]].t = CellOf(parts[j + 1]).t
                            /\ row[columns[j]].s = CellOf(parts[j + 1]).s
     /\ \A k \in DOMAIN row :
          k = IdKey \/ \E j \in 1..Len(columns) : j <= Len(parts) - 1 /\ columns[j] = k
     /\ Cardinality(DOMAIN row) <= 1 + Min(Len(parts) - 1, Len(columns))

\* A kept row with more parts (1, x, y, w) than the header has columns
\* (A, A): x and then y are stored under A, and w is stored nowhere.
C18_Witness ==
  /\ pc = "done"
  /\ columns = << <<"A">>, <<"A">> >>
  /\ parts = << <<"1">>, <<"x">>, <<"y">>, <<"w">> >>
  /\ result.rows[Len(result.rows)] = row
  /\ DOMAIN row = {IdKey, <<"A">>}
  /\ row[<<"A">>].s = <<"y">>

-----------------------------------------------------------------------------
(* Export: parse2DAFile(content) followed by exportToCSV of its result *)

MaxCsvRows == 2

\* Data lines of the exported tables: id 0, the value `He said, "hi"`, a
\* comma, numbers and the number 0, a deleted row, a row without values, an
\* empty string and a lone quote inside a value.
CsvLines ==
  { <<"0", " ", "x">>,
    <<"1", " ", QUOTE, "H", "e", " ", "s", "a", "i", "d", ",", " ",
      QUOTE, "h", "i", QUOTE, QUOTE>>,
    <<"2", " ", "a", ",", "b", " ", "0">>,
    <<"3", " ", "-", "3", ".", "5", "0", " ", "1", "2">>,
    <<"4", " ", "*", "*", "*", "*", " ", "z">>,
    <<"5">>,
    <<"6", " ", QUOTE, QUOTE, " ", "q", QUOTE, "r">> }

\* The empty text, and the header `A B` followed by data lines.
CsvTexts ==
  { <<>> } \cup
  { joinLines(<< <<"A", " ", "B">> >> \o ls) : ls \in SeqsUpTo(CsvLines, MaxCsvRows) }

InitCsv ==
  /\ content \in CsvTexts
  /\ DecoderStart
  /\ AppIdle

\* handleExportCSV: the table of the grid is written out.
ExportToCSV ==
  /\ pc = "done"
  /\ csvContent' = exportToCSV(result)
  /\ pc' = "exported"
  /\ UNCHANGED <<content, dataLines, columns, i, line, parts, row, rows,
                 rowsProcessed, rowsSkipped, result>>
  /\ UNCHANGED <<hooks, loads, requests, ui, resolver>>

NextCsv ==
  \/ CollectDataLines
  \/ ReturnEmpty
  \/ ParseHeader
  \/ SkipRow
  \/ KeepRow
  \/ ReturnTable
  \/ ExportToCSV

SpecCsv == InitCsv /\ [][NextCsv]_vars

-----------------------------------------------------------------------------
(* C11 *)

\* The pieces of s between the separator positions, empty pieces included.
PiecesBy(s, SepAt) ==
  LET t == s \o <<NL>>
      ends == SepAt \cup {Len(t)}
      nth(n) == CHOOSE a \in ends : Cardinality({b \in ends : b < a}) = n - 1
      from(n) == IF n = 1 THEN 1 ELSE nth(n - 1) + 1
  IN  [n \in 1..Cardinality(ends) |-> SubSeq(t, from(n), nth(n) - 1)]

\* The lines of the exported text, and the fields of a line: the pieces
\* between the commas outside quotes.
CsvTextLines == PiecesBy(csvContent, {k \in 1..Len(csvContent) : csvContent[k] = NL})
CsvFields(l) == PiecesBy(l, {k \in Unquoted(l) : l[k] = ","})

\* The names joined by commas, from the right.
RECURSIVE CommaJoined(_)
CommaJoined(ns) ==
  IF ns = <<>> THEN <<>>
  ELSE IF Len(ns) = 1 THEN ns[1]
  ELSE ns[1] \o <<",">> \o CommaJoined(Tail(ns))

\* A field without its wrapping quotes and with each pair of quotes read as
\* one quote.
RECURSIVE Undoubled(_)
Undoubled(s) ==
  IF Len(s) < 2 THEN s
  ELSE IF s[1] = QUOTE /\ s[2] = QUOTE THEN <<QUOTE>> \o Undoubled(Tail(Tail(s)))
  ELSE <<s[1]>> \o Undoubled(Tail(s))
Unescaped(f) ==
  IF Len(f) >= 2 /\ f[1] = QUOTE /\ f[Len(f)] = QUOTE
  THEN Undoubled(SubSeq(f, 2, Len(f) - 1))
  ELSE f

\* The text t is the default decimal form of the number cell c: a strict
\* number of that value without spare zeros.
DecimalOf(t, c) ==
  /\ StrictNumber(t)
  /\ Num(Unscaled(t), FractionDigits(t)) = c
  /\ FractionDigits(t) = c.e
  /\ LET b == IF t[1] = "-" THEN Tail(t) ELSE t
     IN  b[1] = "0" => (Len(b) = 1 \/ b[2] = ".")

\* The field f shows the cell c.
Shows(f, c) ==
  IF c.t = "num" THEN DecimalOf(f, c) ELSE Unescaped(f) = c.s

\* The key of a column in a row.
KeyOf(col) == IF col = IdColumn THEN IdKey ELSE col

Exported == pc = "exported"

\* C11 as stated: the exported text has the columns joined by commas as its
\* first line and then one line per row in row order, and each line has one
\* field per column, in column order, that shows the row's field of that
\* column (the id for the column ID).
C11_FieldPerColumn ==
  Exported =>
     /\ CsvTextLines[1] = CommaJoined(result.columns)
     /\ Len(CsvTextLines) = 1 + Len(result.rows)
     /\ \A k \in 1..Len(result.rows) :
          LET fs == CsvFields(CsvTextLines[k + 1])
          IN  /\ Len(fs) = Len(result.columns)
              /\ \A j \in 1..Len(result.columns) :
                   KeyOf(result.columns[j]) \in DOMAIN result.rows[k] =>
                      Shows(fs[j], result.rows[k][KeyOf(result.columns[j])])

\* C11 amended: as above, but a field of the row that is the number 0 (or
\* the empty string, or absent) gives an empty field in the line.
C11_FieldPerColumnOrEmpty ==
  Exported =>
     /\ CsvTextLines[1] = CommaJoined(result.columns)
     /\ Len(CsvTextLines) = 1 + Len(result.rows)
     /\ \A k \in 1..Len(result.rows) :
          LET fs == CsvFields(CsvTextLines[k + 1])
          IN  /\ Len(fs) = Len(result.columns)
              /\ \A j \in 1..Len(result.columns) :
                   LET key == KeyOf(result.columns[j])
                       r == result.rows[k]
                   IN  IF key \in DOMAIN r /\ ~isFalsy(r[key])
                       THEN Shows(fs[j], r[key])
                       ELSE fs[j] = <<>>

\* The export of a table whose first row has the id 0 and whose second row
\* has no value for the second column.
C11_Witness ==
  /\ Exported
  /\ Len(result.rows) = 2
  /\ result.rows[1][IdKey].m = 0
  /\ DOMAIN result.rows[2] = {IdKey}
  /\ csvContent = <<"I", "D", ",", "A", ",", "B", NL, ",", "x", ",", NL,
                    "5", ",", ",">>

-----------------------------------------------------------------------------
(* C12 *)

\* The value that the export writes for a column of a row: the row's field,
\* or the empty string where the row has none or has 0 or the empty string.
Written(r, col) ==
  IF KeyOf(col) \in DOMAIN r /\ r[KeyOf(col)] \notin {Num(0, 0), Str(<<>>)}
  THEN r[KeyOf(col)]
  ELSE Str(<<>>)

Quotes(s) == CountIn({QUOTE}, s)

\* C12: a written value whose string form has a comma or a double quote is
\* emitted between two double quotes with each of its double quotes doubled
\* and nothing else changed; any other value is emitted as its string form
\* with nothing added.
C12_Escaping ==
  Exported =>
     \A k \in 1..Len(result.rows) :
        \A j \in 1..Len(result.columns) :
           LET f == CsvFields(CsvTextLines[k + 1])[j]
               v == Written(result.rows[k], result.columns[j])
           IN  IF v.t = "num" THEN DecimalOf(f, v)
               ELSE IF CountIn({",", QUOTE}, v.s) = 0 THEN f = v.s
               ELSE /\ Len(f) = Len(v.s) + Quotes(v.s) + 2
                    /\ f[1] = QUOTE
                    /\ f[Len(f)] = QUOTE
                    /\ Quotes(f) = 2 * Quotes(v.s) + 2
                    /\ Undoubled(SubSeq(f, 2, Len(f) - 1)) = v.s

\* The value `He said, "hi"` has been exported as "He said, ""hi""".
C12_Witness ==
  /\ Exported
  /\ Len(result.rows) = 1
  /\ <<"A">> \in DOMAIN result.rows[1]
  /\ result.rows[1][<<"A">>] =
       Str(<<"H", "e", " ", "s", "a", "i", "d", ",", " ", QUOTE, "h", "i", QUOTE>>)
  /\ CsvTextLines[2] =
       <<"1", ",", QUOTE, "H", "e", " ", "s", "a", "i", "d", ",", " ",
         QUOTE, QUOTE, "h", "i", QUOTE, QUOTE, QUOTE, ",">>

-----------------------------------------------------------------------------
(* ReferenceApp: the four useTableData hooks and their loads *)

MaxLoads == 4

\* The files of ReferenceApp, in the order of its useTableData calls.
AppFiles == <<"appearance.2da", "feat.2da", "spells.2da", "placeables.2da">>

\* Texts that the server may hold for a file: a table of two rows whose
\* columns PREREQFEAT1 and SPELLID refer to feats and spells.
\*   Label PREREQFEAT1 SPELLID
\*   1 a 2 1
\*   2 b **** 3
ServedTexts ==
  { <<"L", "a", "b", "e", "l", " ", "P", "R", "E", "R", "E", "Q", "F", "E", "A", "T", "1", " ", "S", "P", "E", "L", "L", "I", "D">> \o <<NL>>
      \o <<"1", " ", "a", " ", "2", " ", "1">> \o <<NL>>
      \o <<"2", " ", "b", " ", "*", "*", "*", "*", " ", "3">> }

Responses == {FetchRejects, NotOk} \cup {Ok(t) : t \in ServedTexts}

InitApp ==
  /\ DecoderIdle
  /\ csvContent = <<>>
  /\ hooks = [h \in 1..Len(AppFiles) |-> useState(AppFiles[h])]
  /\ loads = <<>>
  /\ requests = <<>>
  /\ ui = useStateOfGrid(0)
  /\ resolver = ResolverState

\* The effects of the hooks h..Len(hs) run in order: each starts a load.
RECURSIVE runEffects(_, _, _)
runEffects(hs, ls, h) ==
  IF h > Len(hs) THEN ls
  ELSE runEffects(hs, Append(ls, Effect(h, hs[h].filename)), h + 1)

\* The component is rendered for the first time (or again, as a new
\* instance): every hook has its first state, and every effect runs.
Mount ==
  /\ \A h \in 1..Len(hooks) : ~hooks[h].mounted
  /\ Len(loads) + Len(hooks) <= MaxLoads
  /\ hooks' = [h \in 1..Len(hooks) |->
                 [beforeLoad(useState(hooks[h].filename)) EXCEPT !.mounted = TRUE]]
  /\ loads' = runEffects(hooks, loads, 1)
  /\ requests' = requests \o [h \in 1..Len(hooks) |-> hooks[h].filename]
  /\ UNCHANGED <<decoderVars, csvContent, ui, resolver>>

\* The fetch of load k settles with some response, load2DAFile settles, and
\* loadData runs on from its await.
LoadSettles ==
  \E k \in 1..Len(loads), response \in Responses :
     /\ ~loads[k].settled
     /\ LET promise == load2DAFile(response)
            h == loads[k].hook
        IN  /\ loads' = [loads EXCEPT ![k].settled = TRUE,
                                      ![k].response = response,
                                      ![k].promise = promise]
            /\ hooks' = [hooks EXCEPT ![h] = afterLoad(hooks[h], loads[k].isMounted, promise)]
     /\ UNCHANGED <<decoderVars, csvContent, requests, ui, resolver>>

\* The component is removed: every effect is cleaned up.
Unmount ==
  /\ \E h \in 1..Len(hooks) : hooks[h].mounted
  /\ hooks' = [h \in 1..Len(hooks) |-> [hooks[h] EXCEPT !.mounted = FALSE]]
  /\ loads' = [k \in 1..Len(loads) |-> [loads[k] EXCEPT !.isMounted = FALSE]]
  /\ UNCHANGED <<decoderVars, csvContent, requests, ui, resolver>>

NextApp ==
  \/ Mount
  \/ LoadSettles
  \/ Unmount

SpecApp == InitApp /\ [][NextApp]_vars

\* The latest run of the effect of hook h (0 when it has not run).
CurrentLoad(h) ==
  LET ks == {k \in 1..Len(loads) : loads[k].hook = h}
  IN  IF ks = {} THEN 0 ELSE CHOOSE k \in ks : \A j \in ks : j <= k

Failed(response) == response.kind /= "ok"

-----------------------------------------------------------------------------
(* C13 *)

\* C13: a load whose fetch failed (fetch rejected, or the response was not
\* ok) settles fulfilled with the empty table, no load ever rejects, and the
\* result of a load is that of its own response whatever became of the
\* other loads: the table of its text when its response was ok.
C13_EmptyOnFailure ==
  \A k \in 1..Len(loads) :
     loads[k].settled =>
        /\ ~loads[k].promise.rejected
        /\ Failed(loads[k].response) => loads[k].promise.value = EmptyTable
        /\ ~Failed(loads[k].response) =>
              loads[k].promise.value = parse2DAFile(loads[k].response.text)
        /\ \A j \in 1..Len(loads) :
              (loads[j].settled /\ loads[j].response = loads[k].response)
                 => loads[j].promise = loads[k].promise

\* The load of feat.2da failed and gave the empty table, while the load of
\* spells.2da gave its two rows, which the hook holds.
C13_Witness ==
  /\ Len(loads) = 4
  /\ loads[2].settled /\ loads[2].response = NotOk
  /\ loads[2].promise.value = EmptyTable
  /\ loads[1].settled /\ loads[1].response = FetchRejects
  /\ loads[3].settled /\ Len(loads[3].promise.value.rows) = 2
  /\ hooks[3].data = Data(loads[3].promise.value)
  /\ hooks[2].data = Data(EmptyTable)

-----------------------------------------------------------------------------
(* C14 *)

\* C14: once the load of a rendered table has settled after a failed fetch,
\* the error state of its hook is not null.
C14_ErrorShown ==
  \A h \in 1..Len(hooks) :
     LET k == CurrentLoad(h)
     IN  (hooks[h].mounted /\ k /= 0 /\ loads[k].settled /\ Failed(loads[k].response))
            => ~hooks[h].error.null

-----------------------------------------------------------------------------
(* C15 *)

\* C15: once the four loads of ReferenceApp have been started, exactly one
\* fetch of each of the two TLK resources has been started: two requests are
\* for resources other than the 2DA files.
C15_OneFetchPerTlk ==
  (\A h \in 1..Len(hooks) : hooks[h].mounted) =>
     Cardinality({k \in 1..Len(requests) :
                    \A h \in 1..Len(AppFiles) : requests[k] /= AppFiles[h]}) = 2

-----------------------------------------------------------------------------
(* useTableData alone: one hook whose filename changes *)

HookFiles == {"feat.2da", "spells.2da"}

InitHook ==
  /\ DecoderIdle
  /\ csvContent = <<>>
  /\ hooks \in {<<useState(f)>> : f \in HookFiles}
  /\ loads = <<>>
  /\ requests = <<>>
  /\ ui = useStateOfGrid(0)
  /\ resolver = ResolverState

\* The component is rendered again with another filename: the effect of the
\* old filename is cleaned up and the effect runs for the new one.
ChangeFilename ==
  \E h \in 1..Len(hooks), f \in HookFiles :
     /\ hooks[h].mounted
     /\ f /= hooks[h].filename
     /\ Len(loads) < MaxLoads
     /\ hooks' = [hooks EXCEPT ![h] = beforeLoad([hooks[h] EXCEPT !.filename = f])]
     /\ loads' = Append(cleanup(loads, h), Effect(h, f))
     /\ requests' = Append(requests, f)
     /\ UNCHANGED <<decoderVars, csvContent, ui, resolver>>

NextHook ==
  \/ Mount
  \/ ChangeFilename
  \/ LoadSettles
  \/ Unmount

SpecHook == InitHook /\ [][NextHook]_vars

-----------------------------------------------------------------------------
(* C19 *)

\* Load k settles in this step.
Settles(k) == k \in 1..Len(loads) /\ ~loads[k].settled /\ loads'[k].settled

\* C19: a load that settles after its effect was cleaned up leaves data,
\* error and loading as they were; loading turns false only in the step in
\* which the load of the latest effect settles; and once that load has
\* settled in a rendered hook, data is its result and loading is false,
\* whatever older loads did before or do after.
C19_StaleLoadsWriteNothing ==
  [][\A h \in 1..Len(hooks) :
        /\ \A k \in 1..Len(loads) :
              (Settles(k) /\ loads[k].hook = h /\ ~loads[k].isMounted)
                 => hooks'[h] = hooks[h]
        /\ (hooks[h].loading /\ ~hooks'[h].loading) => Settles(CurrentLoad(h))
        /\ LET k == CurrentLoad(h)'
           IN  (hooks'[h].mounted /\ k /= 0 /\ loads'[k].settled)
                  => /\ hooks'[h].data = Data(loads'[k].promise.value)
                     /\ hooks'[h].filename = loads'[k].filename
                     /\ ~hooks'[h].loading]_vars

\* The load of the old filename and the load of the new one have both
\* settled, with different tables, and the hook holds the table of the new.
C19_Witness ==
  /\ Len(loads) = 2
  /\ hooks[1].mounted
  /\ ~loads[1].isMounted /\ loads[1].settled
  /\ loads[2].isMounted /\ loads[2].settled
  /\ loads[1].filename /= loads[2].filename
  /\ Len(loads[1].promise.value.rows) = 2
  /\ loads[2].promise.value = EmptyTable
  /\ hooks[1].data = Data(EmptyTable)
  /\ ~hooks[1].loading

-----------------------------------------------------------------------------
(* ReferenceApp and ReferenceDataGrid: tabs, row-detail dialogs and
   cross-references *)

UpperCase ==
  <<"A", "B", "C", "D", "E", "F", "G", "H", "I", "J", "K", "L", "M", "N", "O", "P", "Q", "R", "S", "T", "U", "V", "W", "X", "Y", "Z">>
LowerCase ==
  <<"a", "b", "c", "d", "e", "f", "g", "h", "i", "j", "k", "l", "m", "n", "o", "p", "q", "r", "s", "t", "u", "v", "w", "x", "y", "z">>

\* String.prototype.toLowerCase
toLowerCase(t) ==
  [k \in 1..Len(t) |->
     IF \E n \in 1..Len(UpperCase) : UpperCase[n] = t[k]
     THEN LowerCase[CHOOSE n \in 1..Len(UpperCase) : UpperCase[n] = t[k]]
     ELSE t[k]]

\* text.includes(sub)
includesText(t, sub) ==
  \E a \in 0..(Len(t) - Len(sub)) : SubSeq(t, a + 1, a + Len(sub)) = sub

\* The labels of the tabs, in the order of `tables`.
Labels ==
  << <<"A", "p", "p", "e", "a", "r", "a", "n", "c", "e">>,
     <<"F", "e", "a", "t", "s">>,
     <<"S", "p", "e", "l", "l", "s">>,
     <<"P", "l", "a", "c", "e", "a", "b", "l", "e", "s">> >>

getTableType(title) ==
  LET titleLower == toLowerCase(title)
  IN  IF includesText(titleLower, <<"a", "p", "p", "e", "a", "r", "a", "n", "c", "e">>) THEN "appearance"
      ELSE IF includesText(titleLower, <<"f", "e", "a", "t">>) THEN "feats"
      ELSE IF includesText(titleLower, <<"s", "p", "e", "l", "l">>) THEN "spells"
      ELSE IF includesText(titleLower, <<"p", "l", "a", "c", "e", "a", "b", "l", "e">>) THEN "placeables"
      ELSE "spells"

\* The hook that holds the table of a type: appearanceData, featData,
\* spellsData, placeablesData.
hookOf(tableType) ==
  CASE tableType = "appearance" -> 1
    [] tableType = "feats" -> 2
    [] tableType = "spells" -> 3
    [] OTHER -> 4

\* The row object that a RowData stands for.
rowOf(hs, rowData) == hs[hookOf(rowData.tableType)].data.table.rows[rowData.index]

\* The columns that RowDetailDialog shows above the others.
descriptionColumns(tableType) ==
  CASE tableType = "appearance" -> { <<"N", "A", "M", "E">> }
    [] tableType = "feats" -> { <<"D", "E", "S", "C", "R", "I", "P", "T", "I", "O", "N">> }
    [] tableType = "spells" -> { <<"S", "p", "e", "l", "l", "D", "e", "s", "c">> }
    [] OTHER -> {}

\* The columns that refer to a feat by their name.
FeatColumns ==
  { <<"P", "R", "E", "R", "E", "Q", "F", "E", "A", "T", "1">>,
    <<"P", "R", "E", "R", "E", "Q", "F", "E", "A", "T", "2">>,
    <<"O", "r", "R", "e", "q", "F", "e", "a", "t", "0">>,
    <<"O", "r", "R", "e", "q", "F", "e", "a", "t", "1">>,
    <<"O", "r", "R", "e", "q", "F", "e", "a", "t", "2">>,
    <<"O", "r", "R", "e", "q", "F", "e", "a", "t", "3">>,
    <<"O", "r", "R", "e", "q", "F", "e", "a", "t", "4">>,
    <<"F", "e", "a", "t", "I", "D">> }

\* isNumericReference: the column refers to a spell or a feat and
\* Number(value) is a number.  (Every cell that Number takes for a number is
\* a number cell in the served tables.)
isNumericReference(col, value) ==
  /\ \/ includesText(toLowerCase(col), <<"s", "p", "e", "l", "l">>)
     \/ col \in FeatColumns
  /\ value.t = "num"

\* col.toLowerCase().includes('spell') ? 'spell' : 'feat'
referenceType(col) ==
  IF includesText(toLowerCase(col), <<"s", "p", "e", "l", "l">>) THEN "spell" ELSE "feat"

\* The title of the grid of the current tab.
titleOf(u) == Labels[u.currentTab + 1]

\* The grid of the current tab is rendered: table.data.data && !table.data.loading.
gridRendered(hs, u) ==
  /\ hs[u.currentTab + 1].mounted
  /\ ~hs[u.currentTab + 1].data.null
  /\ ~hs[u.currentTab + 1].loading

\* The props of the two RowDetailDialogs of the grid.
Dialogs == {"normal", "crossRef"}
dialogOpen(u, d) == IF d = "normal" THEN u.detailDialogOpen ELSE u.crossRefDialogOpen
dialogRowData(u, d) == IF d = "normal" THEN u.selectedRow ELSE u.crossRefRow
dialogColumns(hs, u, d) ==
  IF d = "normal" THEN hs[u.currentTab + 1].data.table.columns ELSE u.crossRefColumns
dialogTableType(u, d) ==
  IF d = "crossRef" /\ u.crossRefTableType /= "" THEN u.crossRefTableType
  ELSE getTableType(IF d = "normal" THEN titleOf(u) ELSE u.crossRefTitle)

\* The dialog is on the screen: it is open and has a row (`if (!rowData)
\* return null`).
dialogShown(u, d) == dialogOpen(u, d) /\ ~dialogRowData(u, d).null

\* The columns of the dialog that are rendered as cross-reference buttons.
crossReferenceButtons(hs, u, d) ==
  IF ~dialogShown(u, d) THEN {}
  ELSE LET cols == dialogColumns(hs, u, d)
           r == rowOf(hs, dialogRowData(u, d))
       IN  { cols[j] : j \in { n \in 1..Len(cols) :
               LET col == cols[n]
                   fieldName == IF col = IdColumn THEN IdKey ELSE col
               IN  /\ col \notin descriptionColumns(dialogTableType(u, d))
                   /\ fieldName \in DOMAIN r
                   /\ r[fieldName] /= Str(<<>>)
                   /\ col /= IdColumn
                   /\ isNumericReference(col, r[fieldName]) } }

handleRowClick(u, rowData) ==
  [u EXCEPT !.selectedRow = rowData, !.detailDialogOpen = TRUE]

handleCloseDialog(u) ==
  [u EXCEPT !.detailDialogOpen = FALSE, !.selectedRow = NoRowData]

handleCloseCrossRefDialog(u) ==
  [u EXCEPT !.crossRefDialogOpen = FALSE, !.crossRefRow = NoRowData,
            !.crossRefColumns = <<>>, !.crossRefTitle = <<>>,
            !.crossRefTableType = ""]

\* The listener of the grid for the event openRowDetail.
handleOpenRowDetail(u, rowData, tableType, cols) ==
  IF tableType = getTableType(titleOf(u))
  THEN [u EXCEPT !.selectedRow = rowData, !.detailDialogOpen = TRUE]
  ELSE [u EXCEPT !.crossRefRow = rowData,
                 !.crossRefColumns = cols,
                 !.crossRefTitle = IF tableType = "spells" THEN Labels[3]
                                   ELSE IF tableType = "feats" THEN Labels[2]
                                   ELSE Labels[1],
                 !.crossRefTableType = tableType,
                 !.crossRefDialogOpen = TRUE]

\* rows.find(row => row.id === targetId): the index of the first such row,
\* 0 when there is none.
findRow(rs, targetId) ==
  LET ks == {k \in 1..Len(rs) : ~isNaN(targetId) /\ rs[k][IdKey] = Num(targetId.v, 0)}
  IN  IF ks = {} THEN 0 ELSE CHOOSE k \in ks : \A j \in ks : k <= j

\* handleCrossReference(type, value): the event is dispatched, and handled
\* by the grid, before the call returns.
handleCrossReference(hs, u, type, value) ==
  LET targetId == parseInt(value)
      tableType == IF type = "spell" THEN "spells" ELSE "feats"
      tableData == hs[hookOf(tableType)].data
  IN  IF type \in {"spell", "feat"} /\ ~tableData.null
      THEN LET k == findRow(tableData.table.rows, targetId)
           IN  IF k = 0 THEN u
               ELSE handleOpenRowDetail(u, RowData(tableType, k), tableType,
                                        tableData.table.columns)
      ELSE u

\* The onClose of a dialog.
onClose(u, d) ==
  IF d = "normal" THEN handleCloseDialog(u) ELSE handleCloseCrossRefDialog(u)

\* The onClick of the cross-reference button of column col in dialog d:
\* onCrossReference(referenceType, String(value)); onClose().
onClick(hs, u, d, col) ==
  LET value == rowOf(hs, dialogRowData(u, d))[col]
  IN  onClose(handleCrossReference(hs, u, referenceType(col), numberToString(value)), d)

\* A tab is chosen: the grid of the old tab goes and the grid of the new tab
\* starts with its first state.
HandleTabChange ==
  \E newValue \in 0..(Len(Labels) - 1) :
     /\ hooks[1].mounted
     /\ \A d \in Dialogs : ~dialogShown(ui, d)
     /\ ui' = useStateOfGrid(newValue)
     /\ UNCHANGED <<decoderVars, csvContent, hooks, loads, requests, resolver>>

\* A row of the grid is clicked.
HandleRowClick ==
  /\ gridRendered(hooks, ui)
  /\ \A d \in Dialogs : ~dialogShown(ui, d)
  /\ \E k \in 1..Len(hooks[ui.currentTab + 1].data.table.rows) :
        ui' = handleRowClick(ui, RowData(getTableType(titleOf(ui)), k))
  /\ UNCHANGED <<decoderVars, csvContent, hooks, loads, requests, resolver>>

\* The row-detail dialog is closed by its Close button.
CloseDialog ==
  /\ dialogShown(ui, "normal")
  /\ ui' = handleCloseDialog(ui)
  /\ UNCHANGED <<decoderVars, csvContent, hooks, loads, requests, resolver>>

\* The cross-reference dialog is closed by its Close button.
CloseCrossRefDialog ==
  /\ dialogShown(ui, "crossRef")
  /\ ui' = handleCloseCrossRefDialog(ui)
  /\ UNCHANGED <<decoderVars, csvContent, hooks, loads, requests, resolver>>

\* A cross-reference button of a dialog on the screen is clicked.
CrossReferenceClick ==
  /\ \E d \in Dialogs :
        \E col \in crossReferenceButtons(hooks, ui, d) :
           ui' = onClick(hooks, ui, d, col)
  /\ UNCHANGED <<decoderVars, csvContent, hooks, loads, requests, resolver>>

NextDialog ==
  \/ Mount
  \/ LoadSettles
  \/ HandleTabChange
  \/ HandleRowClick
  \/ CloseDialog
  \/ CloseCrossRefDialog
  \/ CrossReferenceClick

SpecDialog == InitApp /\ [][NextDialog]_vars

-----------------------------------------------------------------------------
(* C20 *)

\* The table type that a reference column points into, and the row of that
\* table whose id is the value of the cell, when the table is loaded and has
\* such a row.
TypeReferred(col) ==
  IF \E a \in 1..Len(col) :
        a + 4 <= Len(col) /\ toLowerCase(SubSeq(col, a, a + 4)) = <<"s", "p", "e", "l", "l">>
  THEN "spells" ELSE "feats"
TargetsOf(d, col) ==
  LET t == TypeReferred(col)
      v == rowOf(hooks, dialogRowData(ui, d))[col]
      held == hooks[hookOf(t)].data
  IN  IF held.null THEN {}
      ELSE { RowData(t, k) : k \in { n \in 1..Len(held.table.rows) :
                                      held.table.rows[n][IdKey] = v } }

\* A dialog on the screen shows the row.
Showing(rowData) ==
  \E d \in Dialogs : dialogOpen(ui, d) /\ dialogRowData(ui, d) = rowData

\* C20: whenever the cross-reference button of a column is clicked in a
\* dialog on the screen (the row-detail dialog or the cross-reference
\* dialog) and the table referred to holds a row with the id of the cell,
\* then after the click a dialog showing such a row is open.
C20_TargetDialogOpen ==
  [][\A d \in Dialogs :
        \A col \in crossReferenceButtons(hooks, ui, d) :
           (ui' = onClick(hooks, ui, d, col) /\ TargetsOf(d, col) /= {})
              => \E t \in TargetsOf(d, col) : Showing(t)']_vars

-----------------------------------------------------------------------------
(* The string-reference resolver *)

\* The offset between the standard and the custom id space.
C == 16777216

MaxEntries == 2

Callers == {1, 2}

\* Entries of the two TLK resources.
StandardEntries ==
  { [id |-> 500, text |-> <<"L", "o", "n", "g", "s", "w", "o", "r", "d">>],
    [id |-> 1, text |-> <<"D", "a", "g", "g", "e", "r">>],
    [id |-> 500, text |-> <<"S", "w", "o", "r", "d">>] }
CustomEntries ==
  { [id |-> 1, text |-> <<"C", "u", "s", "t", "o", "m", "S", "w", "o", "r", "d">>],
    [id |-> 500, text |-> <<"C", "u", "s", "t", "o", "m", "B", "o", "w">>] }

\* References asked for: ids of both spaces, present and absent, and a text
\* that is no numeral.
References ==
  { <<"5", "0", "0">>,
    <<"1", "6", "7", "7", "7", "2", "1", "7">>,
    <<"9", "9", "9">>,
    <<"1">>,
    <<"1", "6", "7", "7", "7", "7", "1", "6">>,
    <<"1", "6", "7", "7", "7", "2", "1", "6">>,
    <<"1", "6", "7", "7", "7", "2", "1", "5">>,
    <<"x", "1">> }

\* A StringTable built from a sequence of entries: a later entry with the
\* same id overwrites an earlier one.
RECURSIVE StringTable(_)
StringTable(entries) ==
  IF entries = <<>> THEN EmptyStringTable
  ELSE LET earlier == StringTable(SubSeq(entries, 1, Len(entries) - 1))
           e == entries[Len(entries)]
       IN  [id \in (DOMAIN earlier) \cup {e.id} |->
              IF id = e.id THEN e.text ELSE earlier[id]]

\* The lifecycle has reached a terminal state.
settled(r) == r.lifecycle \in {"ready", "ready-with-fallback"}

\* Variant of resolveReference that looks every id up in both tables, the
\* standard table first, without the offset.
resolveInOneSpace(r, ref) ==
  IF ~settled(r) THEN ref
  ELSE IF ~AllDigits(ref) THEN ref
  ELSE LET id == digitsValue(ref)
       IN  IF id \in DOMAIN r.standard THEN r.standard[id]
           ELSE IF id \in DOMAIN r.custom THEN r.custom[id]
           ELSE ref

\* resolveReference(ref): the input unchanged while the resolver has not
\* settled or when it is no non-negative integer; the custom table's text
\* of id - C for id >= C and the standard table's text of id for id < C;
\* the numeral unchanged when the table has no such id.
resolveReference(r, ref) ==
  IF ~settled(r) THEN ref
  ELSE IF ~AllDigits(ref) THEN ref
  ELSE LET id == digitsValue(ref)
       IN  IF id >= C
           THEN IF (id - C) \in DOMAIN r.custom THEN r.custom[id - C] ELSE ref
           ELSE IF id \in DOMAIN r.standard THEN r.standard[id] ELSE ref

\* The record of a call of initialize by caller c.
called(r, c) ==
  [op |-> "initialize", at |-> r.lifecycle, caller |-> c, ref |-> <<>>, text |-> <<>>]

\* Variant of initialize that starts a new load when the last one failed.
initializeWithRetry(r, c) ==
  IF r.lifecycle \in {"uninitialized", "ready-with-fallback"}
  THEN [r EXCEPT !.lifecycle = "loading",
                 !.fetches = [standard |-> r.fetches.standard + 1,
                              custom |-> r.fetches.custom + 1],
                 !.waiting = {c},
                 !.last = called(r, c)]
  ELSE IF r.lifecycle = "loading"
  THEN [r EXCEPT !.waiting = r.waiting \cup {c},
                 !.last = called(r, c)]
  ELSE [r EXCEPT !.last = called(r, c)]

\* A caller asks for the resolver: the first use starts the one load of the
\* two resources, a caller during the load waits for that load, and a
\* caller after it finds the resolver as it is.
initialize(r, c) ==
  IF r.lifecycle = "uninitialized"
  THEN [r EXCEPT !.lifecycle = "loading",
                 !.fetches = [standard |-> r.fetches.standard + 1,
                              custom |-> r.fetches.custom + 1],
                 !.waiting = {c},
                 !.last = called(r, c)]
  ELSE IF r.lifecycle = "loading"
  THEN [r EXCEPT !.waiting = r.waiting \cup {c},
                 !.last = called(r, c)]
  ELSE [r EXCEPT !.last = called(r, c)]

InitResolver ==
  /\ DecoderIdle
  /\ AppIdle

Initialize ==
  /\ \E c \in Callers : resolver' = initialize(resolver, c)
  /\ UNCHANGED <<decoderVars, csvContent, hooks, loads, requests, ui>>

\* The load of the two resources succeeds: the tables are built and the
\* waiting callers go on.
LoadSucceeds ==
  /\ resolver.lifecycle = "loading"
  /\ \E standard \in SeqsUpTo(StandardEntries, MaxEntries),
        custom \in SeqsUpTo(CustomEntries, MaxEntries) :
        resolver' = [resolver EXCEPT !.lifecycle = "ready",
                                     !.standard = StringTable(standard),
                                     !.custom = StringTable(custom),
                                     !.waiting = {}]
  /\ UNCHANGED <<decoderVars, csvContent, hooks, loads, requests, ui>>

\* The load fails (a fetch error or a malformed payload): both tables are
\* empty from now on.
LoadFails ==
  /\ resolver.lifecycle = "loading"
  /\ resolver' = [resolver EXCEPT !.lifecycle = "ready-with-fallback",
                                  !.standard = EmptyStringTable,
                                  !.custom = EmptyStringTable,
                                  !.waiting = {}]
  /\ UNCHANGED <<decoderVars, csvContent, hooks, loads, requests, ui>>

\* A reference is resolved.
Resolve ==
  /\ \E ref \in References :
        resolver' = [resolver EXCEPT !.last = [op |-> "resolve", at |-> resolver.lifecycle,
                                               caller |-> 0, ref |-> ref,
                                               text |-> resolveReference(resolver, ref)]]
  /\ UNCHANGED <<decoderVars, csvContent, hooks, loads, requests, ui>>

NextResolver ==
  \/ Initialize
  \/ LoadSucceeds
  \/ LoadFails
  \/ Resolve

SpecResolver == InitResolver /\ [][NextResolver]_vars

-----------------------------------------------------------------------------
(* C16 *)

\* The latest call was a resolution made after the resolver had settled.
ResolvedWhenSettled ==
  /\ resolver.last.op = "resolve"
  /\ resolver.last.at \in {"ready", "ready-with-fallback"}

\* C16: a resolution of the numeral of a non-negative integer id made after
\* the resolver has settled gives, for id >= C, the custom table's text of
\* id - C, for id < C, the standard table's text of id, and the numeral
\* itself when the table of its side has no such id; no id is looked up in
\* the table of the other side.
C16_TwoIdSpaces ==
  (ResolvedWhenSettled /\ StrictNumber(resolver.last.ref)) =>
     LET id == Unscaled(resolver.last.ref)
         table == IF id >= 16777216 THEN resolver.custom ELSE resolver.standard
         key == IF id >= 16777216 THEN id - 16777216 ELSE id
     IN  resolver.last.text = IF key \in DOMAIN table THEN table[key]
                              ELSE resolver.last.ref

\* With standard {500: Longsword, 1: Dagger} and custom {1: CustomSword},
\* 16777217 has been resolved to CustomSword.
C16_Witness ==
  /\ ResolvedWhenSettled
  /\ DOMAIN resolver.standard = {1, 500}
  /\ resolver.standard[500] = <<"L", "o", "n", "g", "s", "w", "o", "r", "d">>
  /\ DOMAIN resolver.custom = {1}
  /\ resolver.last.ref = <<"1", "6", "7", "7", "7", "2", "1", "7">>
  /\ resolver.last.text = <<"C", "u", "s", "t", "o", "m", "S", "w", "o", "r", "d">>

-----------------------------------------------------------------------------
(* C17 *)

\* C17: once the load has failed the lifecycle is ready-with-fallback with
\* both tables empty and stays so, no later call starts a fetch, and every
\* later resolution returns its reference unchanged; the lifecycle enters
\* loading from uninitialized only, leaves it for a terminal state only, and
\* never leaves a terminal state.
C17_FallbackIsPermanent ==
  [][/\ (resolver.lifecycle = "loading" /\ resolver'.lifecycle = "ready-with-fallback")
           => (DOMAIN resolver'.standard = {} /\ DOMAIN resolver'.custom = {})
     /\ resolver.lifecycle = "ready-with-fallback"
           => /\ resolver'.lifecycle = "ready-with-fallback"
              /\ resolver'.fetches = resolver.fetches
              /\ DOMAIN resolver'.standard = {} /\ DOMAIN resolver'.custom = {}
              /\ resolver'.last.op = "resolve" => resolver'.last.text = resolver'.last.ref
     /\ resolver.lifecycle = "ready" => resolver'.lifecycle = "ready"
     /\ resolver.lifecycle = "loading" => resolver'.lifecycle /= "uninitialized"
     /\ resolver'.lifecycle = "loading"
           => resolver.lifecycle \in {"uninitialized", "loading"}]_vars

\* After a failed load a caller has asked for the resolver again, and still
\* one fetch of each resource has been started.
C17_Witness ==
  /\ resolver.lifecycle = "ready-with-fallback"
  /\ resolver.last.op = "initialize"
  /\ resolver.last.at = "ready-with-fallback"
  /\ resolver.fetches = [standard |-> 1, custom |-> 1]

====
